---- MODULE Spec2Model ----
(***************************************************************************)
(* Model of the chat persistence logic of aidardev-server                  *)
(* (src/src/chats/chats.service.ts): the Chat and ChatMessage tables and   *)
(* the handlers createChat (createNewChat / updateExistingChat),           *)
(* getChatById and updateChat of ChatsService.                             *)
(*                                                                         *)
(* A request handler is one action: in Spec requests are served one after  *)
(* the other, each running to completion against the store.  SpecPaging,   *)
(* SpecContact, SpecDates and SpecStats serve the list and statistics      *)
(* queries while the clock advances; SpecFail runs a save one store call   *)
(* at a time, any of which the store may refuse.                           *)
(*                                                                         *)
(* SpecRace, SpecUpdates, SpecLast and SpecWriters serve requests that are *)
(* in flight together: a request suspended at an await waits while the     *)
(* store call of another is served.  SpecStatsRace answers the queries of  *)
(* getStats one at a time while chats are created, SpecLife follows the    *)
(* chats over every operation, and SpecBlog serves createPost, updatePost  *)
(* and deletePost of BlogService (src/unnamed/part_008).                   *)
(***************************************************************************)
EXTENDS Integers, Sequences, FiniteSets, TLC

(***************************************************************************)
(* Bounds of the model.                                                    *)
(***************************************************************************)
\* number of Chat rows the store may hold
MaxChats == 2
\* longest message list a request carries
MaxMsgs == 3
\* number of ChatMessage ids (uuids) that may be generated
MaxMsgId == 6
\* last reading of the clock
MaxClock == 1
\* the requests that may be suspended at an await at one time
MaxWaiting == 1
\* number of BlogPost ids (uuids) that may be generated
MaxPosts == 3

(***************************************************************************)
(* Values.                                                                 *)
(***************************************************************************)
\* a property the request object does not carry (JavaScript undefined)
Undefined == "undefined"
\* SQL NULL in a nullable column
NULL == "NULL"
\* metrics.uncertaintyCount / metrics.messageCount not carried by the request
UndefinedNum == -1
\* createChatDto.chatId not carried by the request (falsy at line 46)
NoChatId == 0

ChatStatus == {"new", "contacted", "in_progress", "completed", "archived"}

\* a JavaScript value used as a condition: undefined, null and "" are falsy
Truthy(v) == v \notin {Undefined, NULL, ""}

\* An ISO-8601 time string: a wall-clock reading and the UTC offset written
\* after it ("...T03:00+01:00" is [local |-> 3, offset |-> 1]).
\* new Date(s) is the instant the string denotes.
NewDate(s) == s.local - s.offset

\* Date.prototype.toISOString: the instant written in UTC ("...Z")
ToISOString(d) == [local |-> d, offset |-> 0]

(***************************************************************************)
(* Inputs: the requests the handlers are called with.                      *)
(***************************************************************************)
Time(l, o) == [local |-> l, offset |-> o]
Msg(s, t, at) == [sender |-> s, text |-> t, time |-> at]

\* the messages a transcript is made of: MsgB and MsgC are sent at the same
\* instant, MsgA before them; MsgA and MsgC carry a UTC offset
MsgA == Msg("user", "yo", Time(2, 1))
MsgB == Msg("bot", "hi", Time(2, 0))
MsgC == Msg("user", "ok", Time(3, 1))

\* createChatDto.metrics (MetricsDto); a request without metrics reads every
\* field as undefined (createChatDto.metrics?.x)
Metrics(mc, po, nr, hn, ac, hu, uc) ==
  [messageCount |-> mc, hasPriceObjection |-> po, hasNegativeResponse |-> nr,
   hasName |-> hn, askedForContact |-> ac, hasUncertainty |-> hu,
   uncertaintyCount |-> uc]
NoMetrics ==
  Metrics(UndefinedNum, Undefined, Undefined, Undefined, Undefined, Undefined,
          UndefinedNum)
AllMetrics == Metrics(5, "true", "true", "true", "true", "true", 2)
SomeMetrics == Metrics(UndefinedNum, "false", "true", Undefined, "false", "true", 1)

\* the body of a save request: CreateChatDto without its chatId; has is FALSE
\* when the request has no messages property at all
Body(p, n, t, g, has, list, m) ==
  [phone |-> p, name |-> n, projectType |-> t, language |-> g,
   hasMessages |-> has, messages |-> list, metrics |-> m]

SaveBodies ==
  { b \in
      { Body(Undefined, Undefined, Undefined, Undefined, TRUE,
             <<MsgA, MsgB>>, NoMetrics),
        Body("+7701", "Ivan", "landing", "en", TRUE,
             <<MsgB, MsgC, MsgA>>, AllMetrics),
        Body("", "Anna", Undefined, Undefined, TRUE,
             <<MsgB, MsgB>>, SomeMetrics),
        Body("+7702", Undefined, "shop", "kz", TRUE,
             <<MsgC, MsgB, MsgA, MsgB>>, AllMetrics),
        Body(Undefined, "Ivan", "", Undefined, TRUE,
             <<MsgA, MsgB, MsgB, MsgC, MsgA>>, SomeMetrics),
        Body("+7702", "Anna", "shop", "en", FALSE, <<>>, AllMetrics),
        Body("+7701", "Ivan", "landing", "en", TRUE, <<>>, SomeMetrics),
        Body("+7702", "Ivan", "shop", "en", TRUE, <<MsgB>>, AllMetrics) } :
      Len(b.messages) <= MaxMsgs }

\* CreateChatDto as the service receives it
Dto(c, b) ==
  [chatId |-> c, phone |-> b.phone, name |-> b.name,
   projectType |-> b.projectType, language |-> b.language,
   hasMessages |-> b.hasMessages, messages |-> b.messages,
   metrics |-> b.metrics]
CreateChatDtos ==
  { Dto(c, b) : c \in {NoChatId} \cup (1..(MaxChats + 1)), b \in SaveBodies }

\* A numeral of a query string: its decimal digits; NoNumeral when the
\* parameter is not in the query string
NoNumeral == <<>>
\* a date parameter that is not in the query string
NoTime == Time(-1, 0)

\* the query string of GET /api/chats, every parameter as the text received
Query(pg, lim, st, se, by, ord, from, to, ph, nm) ==
  [page |-> pg, limit |-> lim, status |-> st, search |-> se, sortBy |-> by,
   sortOrder |-> ord, dateFrom |-> from, dateTo |-> to, hasPhone |-> ph,
   hasName |-> nm]

\* a query string with paging and ordering parameters only
Paging(pg, lim, st, by, ord) ==
  Query(pg, lim, st, Undefined, by, ord, NoTime, NoTime, Undefined, Undefined)

\* query strings that page through the list, in the default and in other
\* orders, with and without a status filter; the last two break @Min(1) and
\* @Max(100)
PagingQueries ==
  { Paging(pg, lim, Undefined, Undefined, Undefined) :
      pg \in {NoNumeral, <<1>>, <<2>>, <<3>>},
      lim \in {NoNumeral, <<1>>, <<2>>} }
    \cup
  { Paging(<<1>>, <<1>>, "new", "message_count", "asc"),
    Paging(<<2>>, <<1>>, "new", "message_count", "asc"),
    Paging(<<2>>, <<2>>, Undefined, "message_count", "desc"),
    Paging(<<2>>, <<1>>, Undefined, "created_at", "asc"),
    Paging(<<0>>, NoNumeral, Undefined, Undefined, Undefined),
    Paging(NoNumeral, <<1, 0, 1>>, Undefined, Undefined, Undefined) }

\* query strings with hasPhone / hasName as a client may write them
ContactQueries ==
  { Query(NoNumeral, NoNumeral, Undefined, Undefined, Undefined, Undefined,
          NoTime, NoTime, ph, nm) :
      ph \in {Undefined, "true", "false", ""},
      nm \in {Undefined, "true", "false", ""} }

\* a query string with filters only
Filtering(st, se, from, to, ph, nm) ==
  Query(NoNumeral, NoNumeral, st, se, Undefined, Undefined, from, to, ph, nm)

\* query strings with a date range, alone and together with the other
\* filters
DateQueries ==
  { Filtering(Undefined, Undefined, from, to, Undefined, Undefined) :
      from \in {NoTime, Time(1, 0), Time(3, 1)},
      to \in {NoTime, Time(1, 0), Time(1, 1)} }
    \cup
  { Filtering(oth[1], oth[2], rng[1], rng[2], oth[3], oth[4]) :
      rng \in {<<NoTime, NoTime>>, <<Time(2, 1), NoTime>>,
               <<NoTime, Time(1, 0)>>, <<Time(1, 1), Time(1, 0)>>},
      oth \in {<<"archived", "An", Undefined, Undefined>>,
               <<Undefined, Undefined, "true", "true">>,
               <<"new", "An", "true", Undefined>>} }

\* the requests whose message list is missing or shorter than 2, and the others
TooShortDtos ==
  {dto \in CreateChatDtos : ~dto.hasMessages \/ Len(dto.messages) < 2}
LongEnoughDtos == CreateChatDtos \ TooShortDtos

\* UpdateChatDto: status and notes are optional (@IsOptional lets undefined and
\* null through)
UpdateChatDtos ==
  [status : {Undefined, "archived"}, notes : {Undefined, NULL, "", "call back"}]

(***************************************************************************)
(* State.                                                                  *)
(***************************************************************************)
VARIABLES
  chats,      \* table chats: the Chat rows, chats[id] the row with that id
  messages,   \* table chat_messages: the set of ChatMessage rows
  nextMsgId,  \* the next ChatMessage id to be generated
  result,     \* what the last call served handed back to its caller
  lastSave,   \* lastSave[id]: the CreateChatDto of the last save of chat id
  previous,   \* previous[id]: the rows chat id had before its last save
  now,        \* the clock the store stamps created_at from
  call,       \* the save being served one store call at a time, or Idle
  hadTwo,     \* the ids of the chats that have had 2 or more message rows
  waiting,    \* the requests suspended at an await while another one runs
  posts       \* table blog_posts: posts[id] the BlogPost row with that id

vars ==
  <<chats, messages, nextMsgId, result, lastSave, previous, now, call, hadTwo,
    waiting, posts>>

ChatIds == DOMAIN chats

\* rows of chat_messages with chat_id = id
MessagesOf(table, id) == {m \in table : m.chatId = id}

(***************************************************************************)
(* ChatsService.createChat: validation, then one of the two save paths.    *)
(***************************************************************************)
\* variant: the check accepts a single message
HasAnyMessage(dto) == dto.hasMessages /\ Len(dto.messages) >= 1

\* the request passes the check of line 41
HasEnoughMessages(dto) == dto.hasMessages /\ Len(dto.messages) >= 2

\* an entity property left undefined is stored as NULL
ColumnOf(v) == IF v = Undefined THEN NULL ELSE v

\* metrics?.flag || false
OrFalse(v) == v = "true"

\* metrics?.uncertaintyCount || 0
OrZero(n) == IF n = UndefinedNum THEN 0 ELSE n

\* createDto.language || 'ru'
OrRu(v) == IF Truthy(v) THEN v ELSE "ru"

\* the Chat row createNewChat builds and saves
NewChat(dto) ==
  [phone |-> ColumnOf(dto.phone),
   name |-> ColumnOf(dto.name),
   projectType |-> ColumnOf(dto.projectType),
   language |-> OrRu(dto.language),
   messageCount |-> Len(dto.messages),
   hasPriceObjection |-> OrFalse(dto.metrics.hasPriceObjection),
   hasNegativeResponse |-> OrFalse(dto.metrics.hasNegativeResponse),
   hasName |-> OrFalse(dto.metrics.hasName),
   askedForContact |-> OrFalse(dto.metrics.askedForContact),
   hasUncertainty |-> OrFalse(dto.metrics.hasUncertainty),
   uncertaintyCount |-> OrZero(dto.metrics.uncertaintyCount),
   status |-> "new",
   notes |-> NULL,
   createdAt |-> now]

\* variant: the rows carry the chatId of the request, not the id of the saved
\* row
NewMessagesOfRequest(dto, id, first) ==
  { [id |-> first + i - 1, chatId |-> dto.chatId,
     sender |-> dto.messages[i].sender, text |-> dto.messages[i].text,
     createdAt |-> NewDate(dto.messages[i].time)] : i \in 1..Len(dto.messages) }

\* the ChatMessage rows a save inserts for chat id, ids from first upwards
NewMessages(dto, id, first) ==
  { [id |-> first + i - 1, chatId |-> id, sender |-> dto.messages[i].sender,
     text |-> dto.messages[i].text,
     createdAt |-> NewDate(dto.messages[i].time)] : i \in 1..Len(dto.messages) }

\* variant: the merge the comments describe, a stored value is kept
OverwriteIfEmpty(stored, new) ==
  IF ~Truthy(stored) /\ Truthy(new) THEN new ELSE stored

\* phone, name, projectType on update: the two branches of the if / else if
Overwrite(stored, new) ==
  IF ~Truthy(stored) /\ Truthy(new) THEN new
  ELSE IF Truthy(new) THEN new
  ELSE stored

\* phone, name and projectType of existingChat after lines 114-134
WithContact(existingChat, dto) ==
  [existingChat EXCEPT
     !.phone = Overwrite(@, dto.phone),
     !.name = Overwrite(@, dto.name),
     !.projectType = Overwrite(@, dto.projectType)]

\* variant: messageCount is taken from the metrics the caller computed
WithMetricsTrustingCount(existingChat, dto) ==
  [existingChat EXCEPT
     !.messageCount = OrZero(dto.metrics.messageCount),
     !.hasPriceObjection = OrFalse(dto.metrics.hasPriceObjection),
     !.hasNegativeResponse = OrFalse(dto.metrics.hasNegativeResponse),
     !.hasName = OrFalse(dto.metrics.hasName),
     !.askedForContact = OrFalse(dto.metrics.askedForContact),
     !.hasUncertainty = OrFalse(dto.metrics.hasUncertainty),
     !.uncertaintyCount = OrZero(dto.metrics.uncertaintyCount)]

\* variant: uncertaintyCount is added to the stored count
WithMetricsAccumulating(existingChat, dto) ==
  [existingChat EXCEPT
     !.messageCount = Len(dto.messages),
     !.hasPriceObjection = OrFalse(dto.metrics.hasPriceObjection),
     !.hasNegativeResponse = OrFalse(dto.metrics.hasNegativeResponse),
     !.hasName = OrFalse(dto.metrics.hasName),
     !.askedForContact = OrFalse(dto.metrics.askedForContact),
     !.hasUncertainty = OrFalse(dto.metrics.hasUncertainty),
     !.uncertaintyCount = @ + OrZero(dto.metrics.uncertaintyCount)]

\* variant: a flag the chat already has survives a request that omits it
WithMetricsMerged(existingChat, dto) ==
  [existingChat EXCEPT
     !.messageCount = Len(dto.messages),
     !.hasPriceObjection = @ \/ OrFalse(dto.metrics.hasPriceObjection),
     !.hasNegativeResponse = @ \/ OrFalse(dto.metrics.hasNegativeResponse),
     !.hasName = @ \/ OrFalse(dto.metrics.hasName),
     !.askedForContact = @ \/ OrFalse(dto.metrics.askedForContact),
     !.hasUncertainty = @ \/ OrFalse(dto.metrics.hasUncertainty),
     !.uncertaintyCount =
       IF dto.metrics.uncertaintyCount = UndefinedNum THEN @
       ELSE dto.metrics.uncertaintyCount]

\* messageCount and the six metric fields of existingChat after lines 136-143
WithMetrics(existingChat, dto) ==
  [existingChat EXCEPT
     !.messageCount = Len(dto.messages),
     !.hasPriceObjection = OrFalse(dto.metrics.hasPriceObjection),
     !.hasNegativeResponse = OrFalse(dto.metrics.hasNegativeResponse),
     !.hasName = OrFalse(dto.metrics.hasName),
     !.askedForContact = OrFalse(dto.metrics.askedForContact),
     !.hasUncertainty = OrFalse(dto.metrics.hasUncertainty),
     !.uncertaintyCount = OrZero(dto.metrics.uncertaintyCount)]

\* language of existingChat after lines 145-148
WithLanguage(existingChat, dto) ==
  [existingChat EXCEPT
     !.language = IF Truthy(dto.language) THEN dto.language ELSE @]

\* variant: the row is stamped again when it is saved
UpdatedChatRestamped(existingChat, dto) ==
  [WithLanguage(WithMetrics(WithContact(existingChat, dto), dto), dto)
     EXCEPT !.createdAt = now]

\* variant: a chat that receives new messages is opened again
UpdatedChatReopened(existingChat, dto) ==
  [WithLanguage(WithMetrics(WithContact(existingChat, dto), dto), dto)
     EXCEPT !.status = "new"]

\* the Chat row updateExistingChat saves over existingChat
UpdatedChat(existingChat, dto) ==
  WithLanguage(WithMetrics(WithContact(existingChat, dto), dto), dto)

\* variant: the old rows are not deleted
KeepMessages(table, id) == table

\* variant: the delete criteria match the rows of every chat
DeleteAllMessages(table, id) == {}

\* messageRepository.delete({ chatId }): the table without that chat's rows
DeleteMessages(table, id) == table \ MessagesOf(table, id)

\* no save is part-way through its store calls
Idle == [pc |-> "idle"]

\* what a handler hands back: the exception it throws, or its return value
Thrown(op, err) == [op |-> op, error |-> err]

\* variant: the lookup result is not checked and the handler returns normally
NotFoundIgnored(op) == Thrown(op, "none")

\* throw new NotFoundException(...)
NotFoundException(op) == Thrown(op, "NotFound")
Returned(id, upd) ==
  [op |-> "createChat", error |-> "none", chatId |-> id, updated |-> upd]

createNewChat(dto) ==
  LET id == Len(chats) + 1 IN
    /\ chats' = Append(chats, NewChat(dto))
    /\ messages' = messages \cup NewMessages(dto, id, nextMsgId)
    /\ nextMsgId' = nextMsgId + Len(dto.messages)
    /\ lastSave' = Append(lastSave, dto)
    /\ previous' = Append(previous, {})
    /\ result' = Returned(id, FALSE)

updateExistingChat(dto) ==
  IF dto.chatId \notin ChatIds
  THEN /\ result' = NotFoundException("createChat")
       /\ UNCHANGED <<chats, messages, nextMsgId, lastSave, previous>>
  ELSE LET id == dto.chatId IN
       /\ chats' = [chats EXCEPT ![id] = UpdatedChat(@, dto)]
       /\ messages' =
            DeleteMessages(messages, id) \cup NewMessages(dto, id, nextMsgId)
       /\ nextMsgId' = nextMsgId + Len(dto.messages)
       /\ lastSave' = [lastSave EXCEPT ![id] = dto]
       /\ previous' =
            [previous EXCEPT ![id] = MessagesOf(messages, id)]
       /\ result' = Returned(id, TRUE)

createChat(dto) ==
  IF ~HasEnoughMessages(dto)
  THEN /\ result' = Thrown("createChat", "BadRequest")
       /\ UNCHANGED <<chats, messages, nextMsgId, lastSave, previous>>
  ELSE IF dto.chatId # NoChatId
       THEN updateExistingChat(dto)
       ELSE createNewChat(dto)

(***************************************************************************)
(* A save one store call at a time: each await of createNewChat and        *)
(* updateExistingChat is a step, and the store may reject the call a step  *)
(* waits for.  call holds the position (pc), the request (dto), the id of  *)
(* the chat and the row read by findOne (existing).                        *)
(***************************************************************************)
Calling(pc, dto, id, existing) ==
  [pc |-> pc, dto |-> dto, id |-> id, existing |-> existing]

\* createChat up to its first store call (lines 39-52)
receive(dto) ==
  /\ call = Idle
  /\ IF ~HasEnoughMessages(dto)
     THEN /\ result' = Thrown("createChat", "BadRequest")
          /\ call' = Idle
     ELSE /\ call' = Calling(IF dto.chatId # NoChatId THEN "findOne"
                             ELSE "insertChat", dto, dto.chatId, NULL)
          /\ result' = result
  /\ UNCHANGED <<chats, messages, nextMsgId, lastSave, previous>>

\* chatRepository.findOne and the check of its result (lines 106-112)
findOne ==
  /\ call.pc = "findOne"
  /\ IF call.id \notin ChatIds
     THEN /\ result' = NotFoundException("createChat")
          /\ call' = Idle
     ELSE /\ call' = [call EXCEPT !.pc = "saveChat", !.existing = chats[call.id]]
          /\ result' = result
  /\ UNCHANGED <<chats, messages, nextMsgId, lastSave, previous>>

\* chatRepository.save(chat) of createNewChat (lines 59-77)
insertChat ==
  /\ call.pc = "insertChat"
  /\ chats' = Append(chats, NewChat(call.dto))
  /\ lastSave' = Append(lastSave, call.dto)
  /\ previous' = Append(previous, {})
  /\ call' = [call EXCEPT !.pc = "insertMessages", !.id = Len(chats) + 1]
  /\ UNCHANGED <<messages, nextMsgId, result>>

\* chatRepository.save(existingChat) of updateExistingChat (lines 114-151)
saveChat ==
  /\ call.pc = "saveChat"
  /\ chats' = [chats EXCEPT ![call.id] = UpdatedChat(call.existing, call.dto)]
  /\ lastSave' = [lastSave EXCEPT ![call.id] = call.dto]
  /\ call' = [call EXCEPT !.pc = "deleteMessages"]
  /\ UNCHANGED <<messages, nextMsgId, result, previous>>

\* messageRepository.delete({ chatId }) (line 154)
deleteMessages ==
  /\ call.pc = "deleteMessages"
  /\ previous' = [previous EXCEPT ![call.id] = MessagesOf(messages, call.id)]
  /\ messages' = DeleteMessages(messages, call.id)
  /\ call' = [call EXCEPT !.pc = "insertMessages"]
  /\ UNCHANGED <<chats, nextMsgId, result, lastSave>>

\* variant: the save returns without inserting the messages
insertNoMessages ==
  /\ call.pc = "insertMessages"
  /\ result' = Returned(call.id, call.dto.chatId # NoChatId)
  /\ call' = Idle
  /\ UNCHANGED <<chats, messages, nextMsgId, lastSave, previous>>

\* messageRepository.save(messages) and the return (lines 80-91, 157-168)
insertMessages ==
  /\ call.pc = "insertMessages"
  /\ messages' = messages \cup NewMessages(call.dto, call.id, nextMsgId)
  /\ nextMsgId' = nextMsgId + Len(call.dto.messages)
  /\ result' = Returned(call.id, call.dto.chatId # NoChatId)
  /\ call' = Idle
  /\ UNCHANGED <<chats, lastSave, previous>>

\* variant: a rejected insert of the messages is caught and the save returns
RejectedInsertIgnored(c) ==
  IF c.pc = "insertMessages"
  THEN Returned(c.id, c.dto.chatId # NoChatId)
  ELSE Thrown("createChat", "StoreError")

\* what createChat hands back when the store call it awaits is rejected: the
\* rejection, as no await is inside a try
Rejected(c) == Thrown("createChat", "StoreError")

\* the store rejects the call the save waits for: nothing of that call is
\* written (save and delete each run in a transaction of their own)
storeRejects ==
  /\ call # Idle
  /\ result' = Rejected(call)
  /\ call' = Idle
  /\ UNCHANGED <<chats, messages, nextMsgId, lastSave, previous>>

(***************************************************************************)
(* ChatsService.getChatById                                                *)
(***************************************************************************)
\* the orders in which the store may return the rows of a set
Orders(rows) ==
  { s \in [1..Cardinality(rows) -> rows] :
      \A i, j \in 1..Cardinality(rows) : i # j => s[i] # s[j] }

\* Array.prototype.sort with (a, b) => a.createdAt - b.createdAt: stable,
\* ascending; Insert places row after the rows that are not later than it
RECURSIVE Insert(_, _)
Insert(sorted, row) ==
  IF sorted = <<>> THEN <<row>>
  ELSE IF sorted[Len(sorted)].createdAt - row.createdAt <= 0
       THEN Append(sorted, row)
       ELSE Append(Insert(SubSeq(sorted, 1, Len(sorted) - 1), row),
                   sorted[Len(sorted)])

\* variant: the rows are left in the order the store returned them
Unsorted(rows) == rows

RECURSIVE SortByCreatedAt(_)
SortByCreatedAt(rows) ==
  IF rows = <<>> THEN <<>>
  ELSE Insert(SortByCreatedAt(SubSeq(rows, 1, Len(rows) - 1)), rows[Len(rows)])

\* the detail view getChatById returns for the row chat and its loaded messages
ChatDetail(id, chat, loaded) ==
  [id |-> id,
   phone |-> chat.phone,
   name |-> chat.name,
   projectType |-> chat.projectType,
   status |-> chat.status,
   notes |-> chat.notes,
   metrics |->
     [messageCount |-> chat.messageCount,
      hasPriceObjection |-> chat.hasPriceObjection,
      hasNegativeResponse |-> chat.hasNegativeResponse,
      hasName |-> chat.hasName,
      askedForContact |-> chat.askedForContact,
      hasUncertainty |-> chat.hasUncertainty,
      uncertaintyCount |-> chat.uncertaintyCount],
   language |-> chat.language,
   createdAt |-> ToISOString(chat.createdAt),
   messages |->
     [i \in 1..Len(loaded) |->
        [id |-> SortByCreatedAt(loaded)[i].id,
         sender |-> SortByCreatedAt(loaded)[i].sender,
         text |-> SortByCreatedAt(loaded)[i].text,
         createdAt |-> ToISOString(SortByCreatedAt(loaded)[i].createdAt)]]]

getChatById(id) ==
  /\ IF id \notin ChatIds
     THEN result' = NotFoundException("getChatById")
     ELSE \E loaded \in Orders(MessagesOf(messages, id)) :
            result' = [op |-> "getChatById", error |-> "none",
                       data |-> ChatDetail(id, chats[id], loaded)]
  /\ UNCHANGED <<chats, messages, nextMsgId, lastSave, previous>>

(***************************************************************************)
(* ChatsService.updateChat                                                 *)
(***************************************************************************)
\* variant: notes are assigned whether or not the dto carries them
PatchedChatAssigningNotes(chat, dto) ==
  [chat EXCEPT
     !.status = IF Truthy(dto.status) THEN dto.status ELSE @,
     !.notes = ColumnOf(dto.notes)]

\* variant: notes are tested like status, by truthiness
PatchedChatIfTruthy(chat, dto) ==
  [chat EXCEPT
     !.status = IF Truthy(dto.status) THEN dto.status ELSE @,
     !.notes = IF Truthy(dto.notes) THEN dto.notes ELSE @]

\* the row updateChat saves over chat: only the fields the dto carries
PatchedChat(chat, dto) ==
  [chat EXCEPT
     !.status = IF Truthy(dto.status) THEN dto.status ELSE @,
     !.notes = IF dto.notes # Undefined THEN dto.notes ELSE @]

updateChat(id, dto) ==
  /\ IF id \notin ChatIds
     THEN /\ result' = NotFoundException("updateChat")
          /\ UNCHANGED chats
     ELSE /\ chats' = [chats EXCEPT ![id] = PatchedChat(@, dto)]
          /\ result' = Thrown("updateChat", "none")
  /\ UNCHANGED <<messages, nextMsgId, lastSave, previous>>

(***************************************************************************)
(* updateChat one store call at a time, and requests in flight together:   *)
(* a handler runs until it awaits a store call; while it waits another     *)
(* request may be served.  call is the request whose store call is served  *)
(* next, waiting the requests suspended at their await.                    *)
(***************************************************************************)
\* updateChat up to its first store call (line 373)
receiveUpdate(id, dto) ==
  /\ call = Idle
  /\ call' = Calling("findChat", dto, id, NULL)
  /\ UNCHANGED <<chats, messages, nextMsgId, result, lastSave, previous>>

\* chatRepository.findOne of updateChat and the check of its result (lines
\* 374-378)
findChat ==
  /\ call.pc = "findChat"
  /\ IF call.id \notin ChatIds
     THEN /\ result' = NotFoundException("updateChat")
          /\ call' = Idle
     ELSE /\ call' = [call EXCEPT !.pc = "patchChat", !.existing = chats[call.id]]
          /\ result' = result
  /\ UNCHANGED <<chats, messages, nextMsgId, lastSave, previous>>

\* chatRepository.save(chat) of updateChat (lines 380-389): the row read by
\* findOne, patched, is written over the stored row
patchChat ==
  /\ call.pc = "patchChat"
  /\ chats' = [chats EXCEPT ![call.id] = PatchedChat(call.existing, call.dto)]
  /\ result' = Thrown("updateChat", "none")
  /\ call' = Idle
  /\ UNCHANGED <<messages, nextMsgId, lastSave, previous>>

\* seq without its i-th element
Without(seq, i) == SubSeq(seq, 1, i - 1) \o SubSeq(seq, i + 1, Len(seq))

\* the request in flight stays suspended at its await, and the server is free
\* to take up another one
suspend ==
  /\ call # Idle
  /\ waiting' = Append(waiting, call)
  /\ call' = Idle

\* the store call of a suspended request is the next one served
resume(i) ==
  /\ call = Idle
  /\ call' = waiting[i]
  /\ waiting' = Without(waiting, i)

(***************************************************************************)
(* GET /api/chats: GetChatsQueryDto and ChatsService.getChats              *)
(***************************************************************************)
\* Number(text) of a decimal numeral
RECURSIVE Number(_)
Number(numeral) ==
  IF numeral = <<>> THEN 0
  ELSE 10 * Number(SubSeq(numeral, 1, Len(numeral) - 1))
         + numeral[Len(numeral)]

\* @Type(() => Number) on an optional parameter
ToNumber(raw) == IF raw = NoNumeral THEN UndefinedNum ELSE Number(raw)

\* @Type(() => Boolean) on an optional parameter: Boolean(text), which is
\* false for the empty text only
ToBoolean(raw) ==
  IF raw = Undefined THEN Undefined
  ELSE IF raw = "" THEN "false" ELSE "true"

\* the GetChatsQueryDto the ValidationPipe (transform: true) builds
GetChatsQueryDto(raw) ==
  [raw EXCEPT !.page = ToNumber(@), !.limit = ToNumber(@),
              !.hasPhone = ToBoolean(@), !.hasName = ToBoolean(@)]

\* @Min(1) on page, @Min(1) @Max(100) on limit
ValidQuery(query) ==
  /\ query.page = UndefinedNum \/ query.page >= 1
  /\ query.limit = UndefinedNum \/ (query.limit >= 1 /\ query.limit <= 100)

\* page = 1, limit = 20 of the destructuring
PageOf(query) == IF query.page = UndefinedNum THEN 1 ELSE query.page
LimitOf(query) == IF query.limit = UndefinedNum THEN 20 ELSE query.limit

\* variant: the first page starts after the first limit rows
SkipFromPage(query) == PageOf(query) * LimitOf(query)

\* const skip = (page - 1) * limit
Skip(query) == (PageOf(query) - 1) * LimitOf(query)

\* a timestamptz parameter: the instant the text denotes
Timestamptz(s) == s.local - s.offset

\* the texts of the model in lower case
Lower(s) ==
  CASE s = "Ivan" -> "ivan"
    [] s = "Anna" -> "anna"
    [] s = "An" -> "an"
    [] OTHER -> s

\* column ILIKE '%search%': NULL matches nothing
ILike(column, search) ==
  /\ column # NULL
  /\ <<Lower(column), Lower(search)>> \in
       {<<"ivan", "an">>, <<"anna", "an">>, <<"landing", "an">>}

StatusFilter(chat, query) ==
  Truthy(query.status) => chat.status = query.status

HasPhoneFilter(chat, query) ==
  query.hasPhone # Undefined
    => IF query.hasPhone = "true" THEN chat.phone # NULL
       ELSE chat.phone = NULL

HasNameFilter(chat, query) ==
  query.hasName # Undefined => chat.hasName = (query.hasName = "true")

\* variant: the range excludes its upper bound
DateFilterHalfOpen(chat, query) ==
  IF query.dateFrom # NoTime /\ query.dateTo # NoTime
  THEN /\ Timestamptz(query.dateFrom) <= chat.createdAt
       /\ chat.createdAt < Timestamptz(query.dateTo)
  ELSE IF query.dateFrom # NoTime
       THEN chat.createdAt >= Timestamptz(query.dateFrom)
       ELSE IF query.dateTo # NoTime
            THEN chat.createdAt < Timestamptz(query.dateTo)
            ELSE TRUE

DateFilter(chat, query) ==
  IF query.dateFrom # NoTime /\ query.dateTo # NoTime
  THEN /\ Timestamptz(query.dateFrom) <= chat.createdAt
       /\ chat.createdAt <= Timestamptz(query.dateTo)
  ELSE IF query.dateFrom # NoTime
       THEN chat.createdAt >= Timestamptz(query.dateFrom)
       ELSE IF query.dateTo # NoTime
            THEN chat.createdAt <= Timestamptz(query.dateTo)
            ELSE TRUE

SearchFilter(chat, query) ==
  Truthy(query.search)
    => \/ ILike(chat.name, query.search)
       \/ ILike(chat.phone, query.search)
       \/ ILike(chat.projectType, query.search)

\* the ids of the rows the WHERE clause of the query builder selects
Selected(query) ==
  {id \in ChatIds :
     /\ StatusFilter(chats[id], query)
     /\ HasPhoneFilter(chats[id], query)
     /\ HasNameFilter(chats[id], query)
     /\ DateFilter(chats[id], query)
     /\ SearchFilter(chats[id], query)}

\* sortColumnMap[sortBy] || 'chat.created_at'
SortColumn(chat, query) ==
  IF query.sortBy = "message_count" THEN chat.messageCount
  ELSE chat.createdAt

\* ORDER BY column ASC | DESC (sortOrder = 'desc' by default); rows with the
\* same value come in any order
OrderedBy(ids, query) ==
  {s \in Orders(ids) :
     \A i, j \in 1..Len(s) :
       i < j =>
         IF query.sortOrder = "asc"
         THEN SortColumn(chats[s[i]], query) <= SortColumn(chats[s[j]], query)
         ELSE SortColumn(chats[s[i]], query) >= SortColumn(chats[s[j]], query)}

\* OFFSET skip LIMIT limit
SkipTake(ordered, skip, limit) ==
  [i \in 1..(IF Len(ordered) - skip < 0 THEN 0
             ELSE IF Len(ordered) - skip < limit THEN Len(ordered) - skip
             ELSE limit) |-> ordered[skip + i]]

\* Math.ceil(total / limit)
Ceil(total, limit) == (total + limit - 1) \div limit

\* variant: the first rows of the whole batch are taken for every chat
LatestOfAny(id) ==
  {m \in messages : \A o \in messages : o.createdAt <= m.createdAt}

\* the rows of chat id that come first in ORDER BY createdAt DESC
LatestOf(id) ==
  {m \in MessagesOf(messages, id) :
     \A o \in MessagesOf(messages, id) : o.createdAt <= m.createdAt}

\* the lastMessage of a listed chat: undefined for a chat without messages
LastMessages(id) ==
  IF MessagesOf(messages, id) = {}
  THEN {[text |-> Undefined, sender |-> Undefined, time |-> NoTime]}
  ELSE {[text |-> m.text, sender |-> m.sender,
         time |-> ToISOString(m.createdAt)] : m \in LatestOf(id)}

\* one element of formattedChats
ListedChat(id, chat, lastMessage) ==
  [id |-> id,
   createdAt |-> ToISOString(chat.createdAt),
   phone |-> chat.phone,
   name |-> chat.name,
   projectType |-> chat.projectType,
   messageCount |-> chat.messageCount,
   status |-> chat.status,
   hasPriceObjection |-> chat.hasPriceObjection,
   hasNegativeResponse |-> chat.hasNegativeResponse,
   hasName |-> chat.hasName,
   askedForContact |-> chat.askedForContact,
   language |-> chat.language,
   lastMessage |-> lastMessage]

\* what getChats returns for the page rows it read
ChatList(query, page, total, last) ==
  [chats |-> [i \in 1..Len(page) |->
                ListedChat(page[i], chats[page[i]], last[page[i]])],
   pagination |->
     [page |-> PageOf(query), limit |-> LimitOf(query), total |-> total,
      totalPages |-> Ceil(total, LimitOf(query))]]

getChats(raw) ==
  /\ LET query == GetChatsQueryDto(raw) IN
       IF ~ValidQuery(query)
       THEN result' = [op |-> "getChats", error |-> "BadRequest",
                       query |-> raw]
       ELSE \E ordered \in OrderedBy(Selected(query), query) :
              LET page == SkipTake(ordered, Skip(query), LimitOf(query))
                  ids == {page[i] : i \in 1..Len(page)}
              IN \E last \in [ids -> UNION {LastMessages(id) : id \in ids}] :
                   /\ \A id \in ids : last[id] \in LastMessages(id)
                   /\ result' =
                        [op |-> "getChats", error |-> "none", query |-> raw,
                         data |-> ChatList(query, page, Len(ordered), last)]
  /\ UNCHANGED <<chats, messages, nextMsgId, lastSave, previous>>

(***************************************************************************)
(* ChatsService.getStats                                                   *)
(***************************************************************************)
\* the clock readings in 24 hours, 7 days and 30 days (a reading is a day)
Last24h == 1
Last7days == 7
Last30days == 30

\* repository.count({ where }): the number of the rows selected
Count(ids) == Cardinality(ids)

\* variant: archived chats are not counted
CountOpen == Count({id \in ChatIds : chats[id].status # "archived"})

\* this.chatRepository.count()
CountAll == Count(ChatIds)

\* COUNT(*) as getRawMany returns it: a bigint, written as a decimal numeral
RECURSIVE CountText(_)
CountText(n) ==
  IF n < 10 THEN <<n>> ELSE Append(CountText(n \div 10), n % 10)

\* parseInt(item.count)
ParseInt(text) == Number(text)

\* variant: every status is reported, with 0 for a status no chat has
StatusCountsDense ==
  {[status |-> st,
    count |-> CountText(Count({id \in ChatIds : chats[id].status = st}))] :
     st \in ChatStatus}

\* SELECT status, COUNT(*) ... GROUP BY status: one row per status in use
StatusCounts ==
  {[status |-> st,
    count |-> CountText(Count({id \in ChatIds : chats[id].status = st}))] :
     st \in {chats[id].status : id \in ChatIds}}

\* SELECT project_type, COUNT(*) ... WHERE project_type IS NOT NULL GROUP BY
ProjectTypeCounts ==
  {[projectType |-> pt,
    count |-> CountText(Count({id \in ChatIds : chats[id].projectType = pt}))] :
     pt \in {chats[id].projectType : id \in ChatIds} \ {NULL}}

\* byStatus / byProjectType: the map the forEach builds from the rows
CountsBy(rows, key) ==
  [k \in {r[key] : r \in rows} |->
     ParseInt((CHOOSE r \in rows : r[key] = k).count)]

\* the sum of the values of a function
RECURSIVE SumOf(_)
SumOf(f) ==
  IF DOMAIN f = {} THEN 0
  ELSE LET x == CHOOSE y \in DOMAIN f : TRUE
       IN f[x] + SumOf([y \in DOMAIN f \ {x} |-> f[y]])

\* parseFloat(avg || '0') || 0 of SELECT AVG(message_count): the mean of the
\* column as the fraction sum / rows, 0 for an empty table
AvgMessageCount ==
  IF ChatIds = {} THEN [sum |-> 0, rows |-> 1]
  ELSE [sum |-> SumOf([id \in ChatIds |-> chats[id].messageCount]),
        rows |-> Cardinality(ChatIds)]

\* variant: the digits after the second decimal are cut off
Truncated2(num, den) == (100 * num) \div den

\* parseFloat((num / den).toFixed(2)), in hundredths: the nearest hundredth,
\* the larger one of two equally near
ToFixed2(num, den) == (2 * 100 * num + den) \div (2 * den)

\* total > 0 ? (uncertaintyCount / total) * 100 : 0
UncertaintyRate(uncertaintyCount, total) ==
  IF total > 0 THEN ToFixed2(uncertaintyCount * 100, total) ELSE 0

\* where: { createdAt: Between(new Date(now - window), now) }
Between(chat, from, to) == from <= chat.createdAt /\ chat.createdAt <= to

\* what getStats returns
Stats ==
  [total |-> CountAll,
   byStatus |-> CountsBy(StatusCounts, "status"),
   byProjectType |-> CountsBy(ProjectTypeCounts, "projectType"),
   withContact |->
     [withPhone |-> Count({id \in ChatIds : chats[id].phone # NULL}),
      withName |-> Count({id \in ChatIds : chats[id].hasName}),
      withBoth |-> Count({id \in ChatIds : chats[id].phone # NULL /\ chats[id].hasName})],
   metrics |->
     [avgMessageCount |-> AvgMessageCount,
      priceObjections |-> Count({id \in ChatIds : chats[id].hasPriceObjection}),
      negativeResponses |-> Count({id \in ChatIds : chats[id].hasNegativeResponse}),
      uncertaintyRate |->
        UncertaintyRate(Count({id \in ChatIds : chats[id].hasUncertainty}),
                        CountAll)],
   recentActivity |->
     [last24h |-> Count({id \in ChatIds : Between(chats[id], now - Last24h, now)}),
      last7days |->
        Count({id \in ChatIds : Between(chats[id], now - Last7days, now)}),
      last30days |->
        Count({id \in ChatIds : Between(chats[id], now - Last30days, now)})]]

getStats ==
  /\ result' = [op |-> "getStats", error |-> "none", data |-> Stats]
  /\ UNCHANGED <<chats, messages, nextMsgId, lastSave, previous>>

(***************************************************************************)
(* getStats one query at a time: the queries of a Promise.all group are    *)
(* sent together and served in any order, a group after the group before   *)
(* it; call holds the reading of the clock taken at line 399 (at) and the   *)
(* answers received so far (got).                                          *)
(***************************************************************************)
\* the queries of the four groups, by the names their answers are bound to
StatsGroups ==
  << {"total", "statusCounts", "projectTypeCounts", "avgMessageCountResult"},
     {"withPhone", "withName", "withBoth"},
     {"priceObjections", "negativeResponses", "uncertaintyCount"},
     {"last24hCount", "last7daysCount", "last30daysCount"} >>

StatsQueries == UNION {StatsGroups[g] : g \in DOMAIN StatsGroups}

\* the query q has been sent and not answered: the groups before its own are
\* answered in full
Pending(got, q) ==
  /\ q \notin DOMAIN got
  /\ \A g \in DOMAIN StatsGroups :
       q \in StatsGroups[g]
         => \A h \in 1..(g - 1) : StatsGroups[h] \subseteq DOMAIN got

\* the answer of the store to the query q, for a call that read the clock at
Answer(q, at) ==
  CASE q = "total" -> CountAll
    [] q = "statusCounts" -> StatusCounts
    [] q = "projectTypeCounts" -> ProjectTypeCounts
    [] q = "avgMessageCountResult" -> AvgMessageCount
    [] q = "withPhone" -> Count({id \in ChatIds : chats[id].phone # NULL})
    [] q = "withName" -> Count({id \in ChatIds : chats[id].hasName})
    [] q = "withBoth" ->
         Count({id \in ChatIds : chats[id].phone # NULL /\ chats[id].hasName})
    [] q = "priceObjections" ->
         Count({id \in ChatIds : chats[id].hasPriceObjection})
    [] q = "negativeResponses" ->
         Count({id \in ChatIds : chats[id].hasNegativeResponse})
    [] q = "uncertaintyCount" ->
         Count({id \in ChatIds : chats[id].hasUncertainty})
    [] q = "last24hCount" ->
         Count({id \in ChatIds :
                  Between(chats[id], at - Last24h, at)})
    [] q = "last7daysCount" ->
         Count({id \in ChatIds :
                  Between(chats[id], at - Last7days, at)})
    [] q = "last30daysCount" ->
         Count({id \in ChatIds :
                  Between(chats[id], at - Last30days, at)})

\* what getStats returns for the answers got (lines 465-499)
StatsOf(got) ==
  [total |-> got["total"],
   byStatus |-> CountsBy(got["statusCounts"], "status"),
   byProjectType |-> CountsBy(got["projectTypeCounts"], "projectType"),
   withContact |->
     [withPhone |-> got["withPhone"],
      withName |-> got["withName"],
      withBoth |-> got["withBoth"]],
   metrics |->
     [avgMessageCount |-> got["avgMessageCountResult"],
      priceObjections |-> got["priceObjections"],
      negativeResponses |-> got["negativeResponses"],
      uncertaintyRate |->
        UncertaintyRate(got["uncertaintyCount"], got["total"])],
   recentActivity |->
     [last24h |-> got["last24hCount"],
      last7days |-> got["last7daysCount"],
      last30days |-> got["last30daysCount"]]]

\* getStats up to its first queries (lines 397-405)
receiveStats ==
  /\ call = Idle
  /\ call' = [pc |-> "getStats", at |-> now, got |-> <<>>]
  /\ UNCHANGED <<chats, messages, nextMsgId, result, lastSave, previous>>

\* the store answers one of the queries sent
answer(q) ==
  /\ call.pc = "getStats"
  /\ Pending(call.got, q)
  /\ call' = [call EXCEPT !.got = @ @@ (q :> Answer(q, call.at))]
  /\ UNCHANGED <<chats, messages, nextMsgId, result, lastSave, previous>>

\* the last group is answered: lines 465-499
returnStats ==
  /\ call.pc = "getStats"
  /\ DOMAIN call.got = StatsQueries
  /\ result' = [op |-> "getStats", error |-> "none", data |-> StatsOf(call.got)]
  /\ call' = Idle
  /\ UNCHANGED <<chats, messages, nextMsgId, lastSave, previous>>

(***************************************************************************)
(* BlogService (src/unnamed/part_008): createPost, updatePost and          *)
(* deletePost one store call at a time.  A row of blog_posts is its slug   *)
(* and its title; slug has a unique index (@Column({ unique: true })).     *)
(***************************************************************************)
Slugs == {"a", "b"}

\* posts[id] of an id whose row has been removed
NoPost == [slug |-> NULL, title |-> NULL]

\* the id of an entity that has not been saved
NoPostId == 0

\* CreateBlogPostDto and UpdateBlogPostDto (every field optional)
CreateBlogPostDtos == [slug : Slugs, title : {"T1"}]
UpdateBlogPostDtos == [slug : {Undefined} \cup Slugs, title : {Undefined, "T2"}]

PostIds == {id \in DOMAIN posts : posts[id] # NoPost}

\* blogPostRepository.findOne({ where: { slug } }): the ids of the rows found
FindBySlug(slug) == {id \in PostIds : posts[id].slug = slug}

\* updateBlogPostDto.slug && updateBlogPostDto.slug !== slug (line 108)
ChangesSlug(slug, dto) == Truthy(dto.slug) /\ dto.slug # slug

\* post after lines 120-133
UpdatedPost(post, dto) ==
  [post EXCEPT
     !.title = IF Truthy(dto.title) THEN dto.title ELSE @,
     !.slug = IF Truthy(dto.slug) THEN dto.slug ELSE @]

\* variant: the column has no unique index
NoUniqueIndex(id, row) == FALSE

\* the unique index of slug rejects the row: another row has its slug
UniqueViolation(id, row) ==
  \E other \in PostIds \ {id} : posts[other].slug = row.slug

\* a handler of BlogService up to its first store call
receivePost(op, slug, dto) ==
  /\ call = Idle
  /\ call' = [pc |-> "findPost", op |-> op, slug |-> slug, dto |-> dto,
              id |-> NoPostId, post |-> NoPost]
  /\ UNCHANGED <<posts, result>>

\* the first findOne of createPost (lines 66-74), updatePost (lines 99-105)
\* and deletePost (lines 143-149)
findPost ==
  /\ call.pc = "findPost"
  /\ IF call.op = "createPost"
     THEN IF FindBySlug(call.slug) # {}
          THEN /\ result' = Thrown("createPost", "BadRequest")
               /\ call' = Idle
          ELSE /\ call' = [call EXCEPT !.pc = "savePost", !.post = call.dto]
               /\ result' = result
     ELSE IF FindBySlug(call.slug) = {}
          THEN /\ result' = NotFoundException(call.op)
               /\ call' = Idle
          ELSE /\ \E id \in FindBySlug(call.slug) :
                    call' =
                      [call EXCEPT
                         !.id = id,
                         !.post = posts[id],
                         !.pc = IF call.op = "deletePost" THEN "removePost"
                                ELSE IF ChangesSlug(call.slug, call.dto)
                                     THEN "findOther"
                                     ELSE "savePost"]
               /\ result' = result
  /\ UNCHANGED posts

\* the findOne of the new slug in updatePost (lines 108-118)
findOther ==
  /\ call.pc = "findOther"
  /\ IF FindBySlug(call.dto.slug) # {}
     THEN /\ result' = Thrown("updatePost", "BadRequest")
          /\ call' = Idle
     ELSE /\ call' = [call EXCEPT !.pc = "savePost"]
          /\ result' = result
  /\ UNCHANGED posts

\* blogPostRepository.save(post) of createPost (lines 78-92) and updatePost
\* (lines 120-136): an entity without id is inserted under a new id, one with
\* an id is written over the row of that id, or inserted when that row is
\* gone; the store rejects a row that breaks the unique index
savePost ==
  /\ call.pc = "savePost"
  /\ LET creates == call.op = "createPost"
         id == IF creates THEN Len(posts) + 1 ELSE call.id
         row == IF creates THEN call.post ELSE UpdatedPost(call.post, call.dto)
     IN IF UniqueViolation(id, row)
        THEN /\ result' = Thrown(call.op, "StoreError")
             /\ posts' = posts
        ELSE /\ result' = [op |-> call.op, error |-> "none", slug |-> row.slug]
             /\ posts' = IF creates THEN Append(posts, row)
                         ELSE [posts EXCEPT ![id] = row]
  /\ call' = Idle

\* blogPostRepository.remove(post) (lines 151-152)
removePost ==
  /\ call.pc = "removePost"
  /\ posts' = [posts EXCEPT ![call.id] = NoPost]
  /\ result' = [op |-> "deletePost", error |-> "none", slug |-> call.slug]
  /\ call' = Idle

(***************************************************************************)
(* The specification: requests served one at a time.                       *)
(***************************************************************************)
Init ==
  /\ chats = <<>>
  /\ messages = {}
  /\ nextMsgId = 1
  /\ result = Thrown("none", "none")
  /\ lastSave = <<>>
  /\ previous = <<>>
  /\ now = 0
  /\ call = Idle
  /\ hadTwo = {}
  /\ waiting = <<>>
  /\ posts = <<>>

\* the ids a caller may name: those of the chats and one the store does not
\* hold
NameableIds == 1..(Len(chats) + 1)

\* the model holds at most maxChats Chat rows and generates at most maxMsgId
\* ChatMessage ids
WithinBounds(maxChats, maxMsgId) ==
  /\ Len(chats') <= maxChats
  /\ nextMsgId' <= maxMsgId + 1

\* a save that writes rows stays within the same bounds: decided from the
\* request before the handler runs (a rejected save writes nothing)
Fits(dto, maxChats, maxMsgId) ==
  (HasEnoughMessages(dto) /\ dto.chatId \in {NoChatId} \cup ChatIds)
    => /\ nextMsgId + Len(dto.messages) <= maxMsgId + 1
       /\ dto.chatId = NoChatId => Len(chats) < maxChats

\* hadTwo after a step: the chats that now have 2 or more rows join it
NoteTwo ==
  hadTwo' =
    hadTwo \cup
      {id \in DOMAIN chats' : Cardinality(MessagesOf(messages', id)) >= 2}

CreateChat ==
  \E dto \in CreateChatDtos :
    /\ dto.chatId \in {NoChatId} \cup NameableIds
    /\ Fits(dto, MaxChats, MaxMsgId)
    /\ createChat(dto)
    /\ WithinBounds(MaxChats, MaxMsgId)
    /\ NoteTwo
    /\ UNCHANGED <<waiting, posts, now, call>>
GetChatById ==
  /\ \E id \in NameableIds : getChatById(id)
  /\ UNCHANGED <<waiting, posts, now, call, hadTwo>>
UpdateChat ==
  /\ \E id \in NameableIds, dto \in UpdateChatDtos : updateChat(id, dto)
  /\ UNCHANGED <<waiting, posts, now, call, hadTwo>>

Next == CreateChat \/ GetChatById \/ UpdateChat

Spec == Init /\ [][Next]_vars

(***************************************************************************)
(* SpecPaging, SpecContact, SpecDates: chats are created and archived      *)
(* while the clock advances, and the list is queried.                      *)
(***************************************************************************)
\* the clock advances
Tick ==
  /\ now < MaxClock
  /\ now' = now + 1
  /\ UNCHANGED <<chats, messages, nextMsgId, result, lastSave, previous, call,
                 hadTwo, waiting, posts>>

\* a save without chatId
CreateNew ==
  \E dto \in LongEnoughDtos :
    /\ dto.chatId = NoChatId
    /\ createChat(dto)
    /\ WithinBounds(MaxChats, MaxMsgId)
    /\ NoteTwo
    /\ UNCHANGED <<waiting, posts, now, call>>

\* updateChat with a status and no notes
Archive ==
  /\ \E id \in ChatIds :
       updateChat(id, [status |-> "archived", notes |-> Undefined])
  /\ UNCHANGED <<waiting, posts, now, call, hadTwo>>

GetChatsPaging ==
  /\ \E raw \in PagingQueries : getChats(raw)
  /\ UNCHANGED <<waiting, posts, now, call, hadTwo>>

GetChatsContact ==
  /\ \E raw \in ContactQueries : getChats(raw)
  /\ UNCHANGED <<waiting, posts, now, call, hadTwo>>

GetChatsDates ==
  /\ \E raw \in DateQueries : getChats(raw)
  /\ UNCHANGED <<waiting, posts, now, call, hadTwo>>

PagingNext == Tick \/ CreateNew \/ Archive \/ GetChatsPaging
SpecPaging == Init /\ [][PagingNext]_vars

ContactNext == CreateNew \/ Archive \/ GetChatsContact
SpecContact == Init /\ [][ContactNext]_vars

DatesNext == Tick \/ CreateNew \/ Archive \/ GetChatsDates
SpecDates == Init /\ [][DatesNext]_vars

(***************************************************************************)
(* SpecFail: saves served one store call at a time by a store that may     *)
(* reject any call.                                                        *)
(***************************************************************************)
\* the save requests with a message list of at most 2 messages
ShortDtos == {dto \in CreateChatDtos : dto.hasMessages /\ Len(dto.messages) <= 2}

Receive ==
  \E dto \in ShortDtos :
    /\ dto.chatId \in {NoChatId} \cup NameableIds
    /\ receive(dto)
    /\ UNCHANGED <<waiting, posts, now, hadTwo>>

FindOne == findOne /\ UNCHANGED <<waiting, posts, now, hadTwo>>

InsertChat ==
  insertChat /\ WithinBounds(MaxChats, MaxMsgId - 2) /\ NoteTwo /\ UNCHANGED <<waiting, posts, now>>

SaveChat == saveChat /\ UNCHANGED <<waiting, posts, now, hadTwo>>

DeleteOldMessages == deleteMessages /\ NoteTwo /\ UNCHANGED <<waiting, posts, now>>

InsertMessages ==
  /\ insertMessages
  /\ WithinBounds(MaxChats, MaxMsgId - 2)
  /\ NoteTwo
  /\ UNCHANGED <<waiting, posts, now>>

StoreRejects == storeRejects /\ UNCHANGED <<waiting, posts, now, hadTwo>>

FailNext ==
  \/ Receive
  \/ FindOne
  \/ InsertChat
  \/ SaveChat
  \/ DeleteOldMessages
  \/ InsertMessages
  \/ StoreRejects
SpecFail == Init /\ [][FailNext]_vars

(***************************************************************************)
(* SpecStats: chats are created and archived while the clock advances, and *)
(* the statistics and the unfiltered list are queried.                     *)
(***************************************************************************)
\* a save without chatId, in a store that holds one more chat than MaxChats
CreateOneMore ==
  \E dto \in LongEnoughDtos :
    /\ dto.chatId = NoChatId
    /\ createChat(dto)
    /\ WithinBounds(MaxChats + 1, MaxMsgId)
    /\ NoteTwo
    /\ UNCHANGED <<waiting, posts, now, call>>

\* query strings without a filter
UnfilteredQueries ==
  { Paging(NoNumeral, NoNumeral, Undefined, Undefined, Undefined),
    Paging(<<2>>, <<1>>, Undefined, "message_count", "asc") }

GetChatsUnfiltered ==
  /\ \E raw \in UnfilteredQueries : getChats(raw)
  /\ UNCHANGED <<waiting, posts, now, call, hadTwo>>

GetStats ==
  /\ getStats
  /\ UNCHANGED <<waiting, posts, now, call, hadTwo>>

StatsNext ==
  Tick \/ CreateOneMore \/ Archive \/ GetChatsUnfiltered \/ GetStats
SpecStats == Init /\ [][StatsNext]_vars

(***************************************************************************)
(* SpecRace: saves and updateChat calls served one store call at a time,   *)
(* up to MaxWaiting + 1 of them in flight together, while chats are read.  *)
(***************************************************************************)
\* the save requests of two transcripts of 2 messages: either one for a chat
\* that exists, the first one for a new chat
RaceDtos ==
  {dto \in ShortDtos :
     /\ Len(dto.messages) = 2
     /\ dto.name \in {Undefined, "Anna"}
     /\ dto.chatId = NoChatId => dto.name = Undefined}

\* updateChat requests that set one field each
RaceUpdates ==
  {dto \in UpdateChatDtos :
     \/ dto.status = "archived" /\ dto.notes = Undefined
     \/ dto.status = Undefined /\ dto.notes = "call back"}

RaceReceive ==
  \E dto \in RaceDtos :
    /\ dto.chatId \in {NoChatId} \cup NameableIds
    /\ receive(dto)
    /\ UNCHANGED <<waiting, posts, now, hadTwo>>

RaceInsertChat ==
  /\ insertChat
  /\ WithinBounds(MaxChats, MaxMsgId)
  /\ NoteTwo
  /\ UNCHANGED <<waiting, posts, now>>

RaceInsertMessages ==
  /\ insertMessages
  /\ WithinBounds(MaxChats, MaxMsgId)
  /\ NoteTwo
  /\ UNCHANGED <<waiting, posts, now>>

ReceiveUpdate ==
  /\ \E id \in NameableIds, dto \in RaceUpdates : receiveUpdate(id, dto)
  /\ UNCHANGED <<waiting, posts, now, hadTwo>>

FindChat == findChat /\ UNCHANGED <<waiting, posts, now, hadTwo>>

PatchChat == patchChat /\ UNCHANGED <<waiting, posts, now, hadTwo>>

\* a chat is read while it holds at most 2 rows
RaceGetChatById ==
  /\ \E id \in NameableIds :
       /\ Cardinality(MessagesOf(messages, id)) <= 2
       /\ getChatById(id)
  /\ UNCHANGED <<waiting, posts, now, call, hadTwo>>

Suspend ==
  /\ Len(waiting) < MaxWaiting
  /\ suspend
  /\ UNCHANGED <<chats, messages, nextMsgId, result, lastSave, previous, now,
                 hadTwo, posts>>

Resume ==
  /\ \E i \in DOMAIN waiting : resume(i)
  /\ UNCHANGED <<chats, messages, nextMsgId, result, lastSave, previous, now,
                 hadTwo, posts>>

RaceNext ==
  \/ RaceReceive
  \/ FindOne
  \/ RaceInsertChat
  \/ SaveChat
  \/ DeleteOldMessages
  \/ RaceInsertMessages
  \/ Suspend
  \/ Resume
  \/ RaceGetChatById
SpecRace == Init /\ [][RaceNext]_vars

(***************************************************************************)
(* SpecUpdates: chats are created at once; the saves that name a chat are  *)
(* served one store call at a time, up to MaxWaiting + 1 of them in flight *)
(* together, while chats are read.                                         *)
(***************************************************************************)
\* a save without chatId, served at once
CreateAtOnce ==
  \E dto \in RaceDtos :
    /\ dto.chatId = NoChatId
    /\ createChat(dto)
    /\ WithinBounds(MaxChats, MaxMsgId)
    /\ NoteTwo
    /\ UNCHANGED <<waiting, posts, now, call>>

\* a save that names a chat
ReceiveForChat ==
  \E dto \in RaceDtos :
    /\ dto.chatId \in NameableIds
    /\ receive(dto)
    /\ UNCHANGED <<waiting, posts, now, hadTwo>>

UpdatesNext ==
  \/ CreateAtOnce
  \/ ReceiveForChat
  \/ FindOne
  \/ SaveChat
  \/ DeleteOldMessages
  \/ RaceInsertMessages
  \/ Suspend
  \/ Resume
  \/ RaceGetChatById
SpecUpdates == Init /\ [][UpdatesNext]_vars

(***************************************************************************)
(* SpecLast: saves are served one store call at a time, one save at a      *)
(* time, and the list is read between the store calls.                     *)
(***************************************************************************)
\* the save requests of a transcript of 2 and of one of 3 messages, the
\* latest of which differ
LastDtos ==
  {dto \in LongEnoughDtos :
     /\ Len(dto.messages) <= 3
     /\ dto.name \in {Undefined, "Ivan"}}

ReceiveLast ==
  \E dto \in LastDtos :
    /\ dto.chatId \in {NoChatId} \cup NameableIds
    /\ receive(dto)
    /\ UNCHANGED <<waiting, posts, now, hadTwo>>

LastNext ==
  \/ ReceiveLast
  \/ FindOne
  \/ RaceInsertChat
  \/ SaveChat
  \/ DeleteOldMessages
  \/ RaceInsertMessages
  \/ GetChatsUnfiltered
SpecLast == Init /\ [][LastNext]_vars

(***************************************************************************)
(* SpecStatsRace: getStats is served one query at a time while chats are   *)
(* created and the clock advances.                                         *)
(***************************************************************************)
\* a save without chatId, served at once between two queries
CreateBetween ==
  \E dto \in LastDtos :
    /\ dto.chatId = NoChatId
    /\ createChat(dto)
    /\ WithinBounds(MaxChats, MaxMsgId)
    /\ NoteTwo
    /\ UNCHANGED <<waiting, posts, now, call>>

ReceiveStats == receiveStats /\ UNCHANGED <<waiting, posts, now, hadTwo>>

AnswerQuery ==
  /\ \E q \in StatsQueries : answer(q)
  /\ UNCHANGED <<waiting, posts, now, hadTwo>>

ReturnStats == returnStats /\ UNCHANGED <<waiting, posts, now, hadTwo>>

StatsRaceNext ==
  Tick \/ CreateBetween \/ ReceiveStats \/ AnswerQuery \/ ReturnStats
SpecStatsRace == Init /\ [][StatsRaceNext]_vars

(***************************************************************************)
(* SpecWriters: chats are created at once; the saves that name a chat and  *)
(* the updateChat calls are served one store call at a time, up to         *)
(* MaxWaiting + 1 of them in flight together.                              *)
(***************************************************************************)
WritersNext ==
  \/ CreateAtOnce
  \/ ReceiveForChat
  \/ FindOne
  \/ SaveChat
  \/ DeleteOldMessages
  \/ RaceInsertMessages
  \/ ReceiveUpdate
  \/ FindChat
  \/ PatchChat
  \/ Suspend
  \/ Resume
SpecWriters == Init /\ [][WritersNext]_vars

(***************************************************************************)
(* SpecBlog: createPost, updatePost and deletePost calls served one store  *)
(* call at a time, up to MaxWaiting + 1 of them in flight together.        *)
(***************************************************************************)
ReceivePost ==
  /\ \/ \E dto \in CreateBlogPostDtos : receivePost("createPost", dto.slug, dto)
     \/ \E slug \in Slugs, dto \in UpdateBlogPostDtos :
          receivePost("updatePost", slug, dto)
     \/ \E slug \in Slugs : receivePost("deletePost", slug, NoPost)
  /\ UNCHANGED <<chats, messages, nextMsgId, lastSave, previous, now, hadTwo,
                 waiting>>

FindPost ==
  /\ findPost
  /\ UNCHANGED <<chats, messages, nextMsgId, lastSave, previous, now, hadTwo,
                 waiting>>

FindOther ==
  /\ findOther
  /\ UNCHANGED <<chats, messages, nextMsgId, lastSave, previous, now, hadTwo,
                 waiting>>

SavePost ==
  /\ savePost
  /\ Len(posts') <= MaxPosts
  /\ UNCHANGED <<chats, messages, nextMsgId, lastSave, previous, now, hadTwo,
                 waiting>>

RemovePost ==
  /\ removePost
  /\ UNCHANGED <<chats, messages, nextMsgId, lastSave, previous, now, hadTwo,
                 waiting>>

BlogNext ==
  \/ ReceivePost
  \/ FindPost
  \/ FindOther
  \/ SavePost
  \/ RemovePost
  \/ Suspend
  \/ Resume
SpecBlog == Init /\ [][BlogNext]_vars

(***************************************************************************)
(* SpecLife: every operation of the chat subsystem, each served at once,   *)
(* while the clock advances.                                               *)
(***************************************************************************)
SaveChatOf ==
  \E dto \in RaceDtos :
    /\ dto.chatId \in {NoChatId} \cup NameableIds
    /\ Fits(dto, MaxChats, MaxMsgId)
    /\ createChat(dto)
    /\ NoteTwo
    /\ UNCHANGED <<waiting, posts, now, call>>

LifeNext ==
  \/ Tick
  \/ SaveChatOf
  \/ Archive
  \/ GetChatById
  \/ GetChatsUnfiltered
  \/ GetStats
SpecLife == Init /\ [][LifeNext]_vars

(***************************************************************************)
(* Properties.                                                             *)
(***************************************************************************)
\* the number of times each element occurs in a sequence
BagOf(seq) ==
  [x \in {seq[i] : i \in DOMAIN seq} |->
     Cardinality({i \in DOMAIN seq : seq[i] = x})]

\* sender, text and instant of the messages of a request, of a detail view and
\* of the rows stored for a chat
Submitted(list) ==
  [i \in DOMAIN list |->
     <<list[i].sender, list[i].text, NewDate(list[i].time)>>]
Shown(view) ==
  [i \in DOMAIN view |->
     <<view[i].sender, view[i].text, NewDate(view[i].createdAt)>>]
StoredBag(table, id) ==
  [x \in {<<m.sender, m.text, m.createdAt>> : m \in MessagesOf(table, id)} |->
     Cardinality({m \in MessagesOf(table, id) :
                    <<m.sender, m.text, m.createdAt>> = x})]

Ascending(view) ==
  \A i, j \in DOMAIN view :
    i < j => NewDate(view[i].createdAt) <= NewDate(view[j].createdAt)

MetricsOf(chat) ==
  <<chat.hasPriceObjection, chat.hasNegativeResponse, chat.hasName,
    chat.askedForContact, chat.hasUncertainty, chat.uncertaintyCount>>

\* the ids a request may name that the store does not hold
UnknownIds == (1..(MaxChats + 1)) \ ChatIds

\* C1: a createChat call whose message list is missing or has fewer than 2
\* messages throws the validation error and leaves both tables as they were,
\* with or without a chatId in the request.
C1_TooFewMessagesRejected ==
  [][result'.op = "createChat"
       => \A dto \in TooShortDtos :
            createChat(dto)
              => /\ result' = Thrown("createChat", "BadRequest")
                 /\ chats' = chats
                 /\ messages' = messages]_vars

\* C1 witness: a save was rejected for its message list while the store held
\* chats and messages
C1_Witness ==
  /\ result = Thrown("createChat", "BadRequest")
  /\ chats # <<>>
  /\ messages # {}

\* C2: getChatById on a chat whose last save was its creation returns the
\* submitted messages, each once per submission (same sender, text and
\* instant), in ascending order of their instants.
C2_CreateRoundTrip ==
  (result.op = "getChatById" /\ result.error = "none"
     /\ lastSave[result.data.id].chatId = NoChatId)
    => /\ BagOf(Shown(result.data.messages))
            = BagOf(Submitted(lastSave[result.data.id].messages))
       /\ Len(result.data.messages) = Len(lastSave[result.data.id].messages)
       /\ Ascending(result.data.messages)

\* C2 witness: the detail of a chat created from a list submitted out of time
\* order has been read
C2_Witness ==
  /\ result.op = "getChatById"
  /\ result.error = "none"
  /\ lastSave[result.data.id].chatId = NoChatId
  /\ lastSave[result.data.id].messages = <<MsgB, MsgC, MsgA>>

\* C3: getChatById on a chat whose last save was an update returns exactly the
\* messages of that update and no row the chat had before it.
C3_UpdateRoundTrip ==
  (result.op = "getChatById" /\ result.error = "none"
     /\ lastSave[result.data.id].chatId # NoChatId)
    => /\ Len(result.data.messages) = Len(lastSave[result.data.id].messages)
       /\ BagOf(Shown(result.data.messages))
            = BagOf(Submitted(lastSave[result.data.id].messages))
       /\ \A i \in DOMAIN result.data.messages :
            \A old \in previous[result.data.id] :
              result.data.messages[i].id # old.id

\* C3 witness: the detail of a chat has been read after an update whose list
\* has another length than the rows it replaced
C3_Witness ==
  /\ result.op = "getChatById"
  /\ result.error = "none"
  /\ lastSave[result.data.id].chatId # NoChatId
  /\ Cardinality(previous[result.data.id])
       # Len(lastSave[result.data.id].messages)

\* C4: every Chat's messageCount is the length of the message list of the last
\* save request made for it.
C4_MessageCountIsLastListLength ==
  \A id \in ChatIds : chats[id].messageCount = Len(lastSave[id].messages)

\* C4 witness: a chat was updated with a list of another length than before
C4_Witness ==
  \E id \in ChatIds :
    /\ lastSave[id].chatId # NoChatId
    /\ Cardinality(previous[id]) # Len(lastSave[id].messages)
    /\ lastSave[id].metrics.messageCount # Len(lastSave[id].messages)

\* C5: an update that repeats the last save request of the chat leaves the
\* chat's messageCount, metric fields and stored (sender, text, time)
\* messages as the first submission left them.
C5_UpdateIdempotent ==
  [][result'.op = "createChat"
       => \A id \in ChatIds :
            (lastSave[id].chatId = id /\ createChat(lastSave[id]))
              => /\ chats'[id].messageCount = chats[id].messageCount
                 /\ MetricsOf(chats'[id]) = MetricsOf(chats[id])
                 /\ StoredBag(messages', id) = StoredBag(messages, id)]_vars

\* C5 witness: the only chat of the store was created and then updated twice
\* with the same request: the rows the second update replaced are those of
\* the first (the third and fourth rows ever inserted, with the same content)
C5_Witness ==
  /\ Len(chats) = 1
  /\ result = Returned(1, TRUE)
  /\ lastSave[1].metrics # NoMetrics
  /\ {m.id : m \in previous[1]} = {3, 4}
  /\ {m.id : m \in messages} = {5, 6}
  /\ StoredBag(previous[1], 1) = BagOf(Submitted(lastSave[1].messages))

\* C6 as stated: every call that names a chat id the store does not hold (a
\* save with that chatId, getChatById, updateChat) throws the not-found
\* error and writes nothing.
C6_UnknownIdAlwaysNotFound ==
  [][/\ result'.op = "createChat"
          => \A id \in UnknownIds, body \in SaveBodies :
               createChat(Dto(id, body))
                 => /\ result' = Thrown("createChat", "NotFound")
                    /\ chats' = chats
                    /\ messages' = messages
     /\ result'.op = "getChatById"
          => \A id \in UnknownIds :
               getChatById(id)
                 => /\ result' = Thrown("getChatById", "NotFound")
                    /\ chats' = chats
                    /\ messages' = messages
     /\ result'.op = "updateChat"
          => \A id \in UnknownIds, dto \in UpdateChatDtos :
               updateChat(id, dto)
                 => /\ result' = Thrown("updateChat", "NotFound")
                    /\ chats' = chats
                    /\ messages' = messages]_vars

\* C6, amended: a call that names a chat id the store does not hold writes
\* nothing and fails; getChatById, updateChat and a save with at least 2
\* messages throw the not-found error, a save with fewer than 2 messages
\* throws the validation error, which is checked first.
C6_UnknownIdFailsWithoutWrite ==
  [][/\ result'.op = "createChat"
          => \A id \in UnknownIds, body \in SaveBodies :
               createChat(Dto(id, body))
                 => /\ result' =
                         IF body.hasMessages /\ Len(body.messages) >= 2
                         THEN Thrown("createChat", "NotFound")
                         ELSE Thrown("createChat", "BadRequest")
                    /\ chats' = chats
                    /\ messages' = messages
     /\ result'.op = "getChatById"
          => \A id \in UnknownIds :
               getChatById(id)
                 => /\ result' = Thrown("getChatById", "NotFound")
                    /\ chats' = chats
                    /\ messages' = messages
     /\ result'.op = "updateChat"
          => \A id \in UnknownIds, dto \in UpdateChatDtos :
               updateChat(id, dto)
                 => /\ result' = Thrown("updateChat", "NotFound")
                    /\ chats' = chats
                    /\ messages' = messages]_vars

\* C6 witness: a save that names an unknown chat id was refused while the
\* store held chats and messages
C6_Witness ==
  /\ result = Thrown("createChat", "NotFound")
  /\ chats # <<>>
  /\ messages # {}

\* C7: a chat is created with status new; afterwards its status changes only
\* in an updateChat call whose dto carries a status, and no createChat call
\* changes the status of a chat that exists.
C7_StatusOnlyByUpdateChat ==
  [][/\ \A id \in DOMAIN chats' \ DOMAIN chats : chats'[id].status = "new"
     /\ \A id \in ChatIds :
          chats'[id].status # chats[id].status
            => \E dto \in UpdateChatDtos :
                 /\ dto.status \in ChatStatus
                 /\ updateChat(id, dto)
     /\ result'.op = "createChat"
          => \A id \in ChatIds : chats'[id].status = chats[id].status]_vars

\* C7 witness: an update save of an archived chat has completed
C7_Witness ==
  \E id \in ChatIds :
    /\ result = Returned(id, TRUE)
    /\ chats[id].status = "archived"

\* C8: updateChat without a status leaves the chat's status, without notes its
\* notes; no updateChat touches phone, name, projectType, the metric fields,
\* messageCount or the messages.
C8_UpdateChatIsPartial ==
  [][result'.op = "updateChat"
       => \A id \in ChatIds, dto \in UpdateChatDtos :
            updateChat(id, dto)
              => /\ dto.status = Undefined
                      => chats'[id].status = chats[id].status
                 /\ dto.notes = Undefined => chats'[id].notes = chats[id].notes
                 /\ chats'[id].phone = chats[id].phone
                 /\ chats'[id].name = chats[id].name
                 /\ chats'[id].projectType = chats[id].projectType
                 /\ MetricsOf(chats'[id]) = MetricsOf(chats[id])
                 /\ chats'[id].messageCount = chats[id].messageCount
                 /\ messages' = messages]_vars

\* C8 witness: a chat carries notes and the status archived after updateChat
\* calls, on a row with contact fields and metrics set
C8_Witness ==
  \E id \in ChatIds :
    /\ result = Thrown("updateChat", "none")
    /\ chats[id].status = "archived"
    /\ chats[id].notes = "call back"
    /\ chats[id].name = "Ivan"
    /\ chats[id].hasUncertainty

\* C9: updateChat without a notes field leaves the stored notes; with a notes
\* field that is present and empty it stores that empty value.
C9_NotesAbsentVersusEmpty ==
  [][result'.op = "updateChat"
       => \A id \in ChatIds, dto \in UpdateChatDtos :
            updateChat(id, dto)
              => /\ dto.notes = Undefined
                      => chats'[id].notes = chats[id].notes
                 /\ dto.notes \in {"", NULL} => chats'[id].notes = dto.notes]_vars

\* C9 witness: a chat's notes are the empty string, which only a present and
\* empty notes field stores
C9_Witness ==
  \E id \in ChatIds :
    /\ result = Thrown("updateChat", "none")
    /\ chats[id].notes = ""

RequestedMetrics(dto) ==
  <<dto.metrics.hasPriceObjection = "true",
    dto.metrics.hasNegativeResponse = "true",
    dto.metrics.hasName = "true",
    dto.metrics.askedForContact = "true",
    dto.metrics.hasUncertainty = "true",
    IF dto.metrics.uncertaintyCount = UndefinedNum THEN 0
    ELSE dto.metrics.uncertaintyCount>>

\* C11: the six metric fields of every Chat are those the last save request
\* made for it asked for (its value, or false / 0 where it carries none),
\* whatever the chat stored before that save.
C11_MetricsFromRequestAlone ==
  \A id \in ChatIds : MetricsOf(chats[id]) = RequestedMetrics(lastSave[id])

\* C11 witness: a chat that was saved with every metric set (the request that
\* names it Ivan) was last updated by a request without metrics
C11_Witness ==
  \E id \in ChatIds :
    /\ result = Returned(id, TRUE)
    /\ chats[id].name = "Ivan"
    /\ lastSave[id].metrics = NoMetrics

\* C12: an accepted save without chatId adds exactly one Chat, leaves every
\* existing Chat and its messages as they were and returns the new id with
\* updated = false; an accepted save with the chatId of an existing chat adds
\* no Chat, leaves every other Chat and its messages as they were and returns
\* that id with updated = true.
C12_ExactlyOnePath ==
  [][(result'.op = "createChat" /\ result'.error = "none")
       => \A dto \in LongEnoughDtos :
            createChat(dto)
              => IF dto.chatId = NoChatId
                 THEN /\ Len(chats') = Len(chats) + 1
                      /\ \A id \in ChatIds :
                           /\ chats'[id] = chats[id]
                           /\ MessagesOf(messages', id) = MessagesOf(messages, id)
                      /\ result' = Returned(Len(chats) + 1, FALSE)
                 ELSE /\ dto.chatId \in ChatIds
                      /\ Len(chats') = Len(chats)
                      /\ \A id \in ChatIds \ {dto.chatId} :
                           /\ chats'[id] = chats[id]
                           /\ MessagesOf(messages', id) = MessagesOf(messages, id)
                      /\ result' = Returned(dto.chatId, TRUE)]_vars

\* C12 witness: the first of two chats has been updated by a save with its
\* chatId
C12_Witness ==
  /\ Len(chats) = 2
  /\ result = Returned(1, TRUE)
  /\ MessagesOf(messages, 2) # {}

\* a list query has been answered with a page
Listed == result.op = "getChats" /\ result.error = "none"

\* the ids of the rows of a page, in the order shown
ShownIds(view) == [i \in DOMAIN view |-> view[i].id]

\* C13: for page >= 1 and 1 <= limit <= 100 the page getChats returns is the
\* part of the filtered, ordered result that starts after (page - 1) * limit
\* rows and has at most limit rows, total is the number of rows that match
\* the filters and totalPages is the least number of pages of limit rows
\* that hold total rows; page 2 of 25 rows by 10 is rows 11 to 20 of 3 pages.
C13_PageIsSliceOfOrderedResult ==
  Listed =>
    LET query == GetChatsQueryDto(result.query)
        page == result.data.pagination.page
        limit == result.data.pagination.limit
        total == Cardinality(Selected(query))
        pages == result.data.pagination.totalPages
        shown == ShownIds(result.data.chats)
        offset == (page - 1) * limit
    IN /\ page >= 1 /\ limit >= 1 /\ limit <= 100
       /\ result.query.page # NoNumeral => page = Number(result.query.page)
       /\ result.query.limit # NoNumeral => limit = Number(result.query.limit)
       /\ result.data.pagination.total = total
       /\ pages * limit >= total
       /\ (pages - 1) * limit < total
       /\ Len(shown) <= limit
       /\ Len(shown) = IF total - offset < 0 THEN 0
                       ELSE IF total - offset < limit THEN total - offset
                       ELSE limit
       /\ \E ordered \in OrderedBy(Selected(query), query) :
            \A i \in DOMAIN shown : shown[i] = ordered[offset + i]
       /\ Skip(GetChatsQueryDto(
                 Paging(<<2>>, <<1, 0>>, Undefined, Undefined, Undefined))
               ) = 10
       /\ SkipTake([i \in 1..25 |-> i], 10, 10) = [i \in 1..10 |-> 10 + i]
       /\ Ceil(25, 10) = 3

\* C13 witness: the second page of one row each has been read from a list of
\* two chats
C13_Witness ==
  /\ Listed
  /\ result.query.page = <<2>>
  /\ result.query.limit = <<1>>
  /\ result.data.pagination.total = 2
  /\ Len(result.data.chats) = 1

\* C14: a list query with hasPhone=false shows only chats without a phone and
\* one with hasPhone=true only chats with a phone; the rows the two filters
\* select are disjoint and together are all the chats.
C14_HasPhonePartition ==
  Listed =>
    LET shown == {result.data.chats[i].id : i \in DOMAIN result.data.chats}
        opposite ==
          Selected(GetChatsQueryDto(
            [result.query EXCEPT
               !.hasPhone = IF @ = "false" THEN "true" ELSE "false"]))
    IN /\ result.query.hasPhone = "false"
            => \A id \in shown : chats[id].phone = NULL
       /\ result.query.hasPhone = "true"
            => \A id \in shown : chats[id].phone # NULL
       /\ (result.query.hasPhone \in {"true", "false"}
             /\ result.query.hasName = Undefined)
            => /\ shown \cap opposite = {}
               /\ shown \cup opposite = ChatIds

\* the date range of a query string holds the instant at
InRange(at, raw) ==
  /\ raw.dateFrom # NoTime
       => raw.dateFrom.local - raw.dateFrom.offset <= at
  /\ raw.dateTo # NoTime
       => at <= raw.dateTo.local - raw.dateTo.offset

\* C15: getChats selects the chats whose createdAt is not before dateFrom (if
\* given) and not after dateTo (if given), both bounds included, and that
\* pass the status, hasPhone, hasName and search filters of the query.
C15_DateFilterInclusiveAndCombined ==
  Listed =>
    LET query == GetChatsQueryDto(result.query)
        expected ==
          {id \in ChatIds :
             /\ InRange(chats[id].createdAt, result.query)
             /\ StatusFilter(chats[id], query)
             /\ HasPhoneFilter(chats[id], query)
             /\ HasNameFilter(chats[id], query)
             /\ SearchFilter(chats[id], query)}
    IN /\ result.data.pagination.total = Cardinality(expected)
       /\ {result.data.chats[i].id : i \in DOMAIN result.data.chats}
            = expected

\* C15 witness: of two chats created at different clock readings, a query
\* whose dateFrom and dateTo both are the reading of the second has selected
\* the second only
C15_Witness ==
  /\ Listed
  /\ Len(chats) = 2
  /\ chats[1].createdAt < chats[2].createdAt
  /\ result.query.dateFrom = Time(1, 0)
  /\ result.query.dateTo = Time(1, 0)
  /\ result.data.pagination.total = 1
  /\ result.data.chats[1].id = 2

\* the statistics have been returned
Counted == result.op = "getStats" /\ result.error = "none"

\* C16: the total of getStats and the pagination.total of getChats without
\* filters are the same number whenever the two are called one after the
\* other on the same store contents, in either order.
C16_StatsTotalIsUnfilteredListTotal ==
  [][/\ (Counted /\ result'.op = "getChats" /\ result'.error = "none")
          => result'.data.pagination.total = result.data.total
     /\ (Listed /\ result'.op = "getStats")
          => result'.data.total = result.data.pagination.total]_vars

\* C16 witness: the statistics of a store of two chats, one of them archived,
\* have been returned
C16_Witness ==
  /\ Counted
  /\ result.data.total = 2
  /\ \E id \in ChatIds : chats[id].status = "archived"

\* C17: uncertaintyRate (in hundredths) is 0 for an empty store and otherwise
\* the hundredth nearest to 100 * (chats with hasUncertainty) / total; 3 of 8
\* give 37.50.
C17_UncertaintyRateRounded ==
  /\ Counted =>
       LET rate == result.data.metrics.uncertaintyRate
           total == Cardinality(ChatIds)
           uncertain == Cardinality({id \in ChatIds : chats[id].hasUncertainty})
           diff == rate * total - 100 * 100 * uncertain
       IN IF total = 0 THEN rate = 0
          ELSE 2 * (IF diff < 0 THEN 0 - diff ELSE diff) <= total
  /\ UncertaintyRate(3, 8) = 3750

\* C17 witness: the statistics of a store with 2 uncertain chats of 3 have
\* been returned (66.67)
C17_Witness ==
  /\ Counted
  /\ Cardinality(ChatIds) = 3
  /\ Cardinality({id \in ChatIds : chats[id].hasUncertainty}) = 2
  /\ result.data.metrics.uncertaintyRate = 6667

\* C18: the keys of byStatus are exactly the statuses that some chat has, the
\* value of each is the number of chats with that status, and the values sum
\* to total.
C18_ByStatusCountsHeldStatuses ==
  Counted =>
    /\ DOMAIN result.data.byStatus = {chats[id].status : id \in ChatIds}
    /\ \A st \in DOMAIN result.data.byStatus :
         result.data.byStatus[st]
           = Cardinality({id \in ChatIds : chats[id].status = st})
    /\ SumOf(result.data.byStatus) = result.data.total

\* C18 witness: the statistics of a store with chats of two statuses have been
\* returned
C18_Witness ==
  /\ Counted
  /\ DOMAIN result.data.byStatus = {"new", "archived"}
  /\ result.data.byStatus["new"] = 2

\* a save has returned to its caller without an error
Saved == call = Idle /\ result.op = "createChat" /\ result.error = "none"

\* C19: when a save returns without an error, the Chat row it wrote is in the
\* store with the fields of the request and the chat's message rows are
\* exactly the submitted list; a save that left the row without that list
\* has handed its caller an error.
C19_SuccessOnlyWhenAllWritesLanded ==
  Saved =>
    /\ result.chatId \in ChatIds
    /\ chats[result.chatId].messageCount
         = Len(lastSave[result.chatId].messages)
    /\ MetricsOf(chats[result.chatId])
         = RequestedMetrics(lastSave[result.chatId])
    /\ Cardinality(MessagesOf(messages, result.chatId))
         = Len(lastSave[result.chatId].messages)
    /\ StoredBag(messages, result.chatId)
         = BagOf(Submitted(lastSave[result.chatId].messages))

\* C19 witness: an update has returned without an error for a chat that had no
\* message rows, the store having rejected the insert of an earlier save
C19_Witness ==
  /\ Saved
  /\ result.updated
  /\ previous[result.chatId] = {}
  /\ MessagesOf(messages, result.chatId) # {}

\* C20: whenever no save is part-way through, every Chat row of the store
\* has at some point had 2 or more ChatMessage rows.
C20_EveryChatHadTwoMessages ==
  call = Idle => \A id \in ChatIds : id \in hadTwo

\* C21: every ChatMessage row has a chatId, and it is the id of a Chat row of
\* the store, whatever store calls of the saves in flight have been served.
C21_MessagesBelongToChats ==
  \A m \in messages : m.chatId # NoChatId /\ m.chatId \in ChatIds

\* C21 witness: the rows of two saves are stored, one of a new chat and one
\* of an update, and a further save has inserted its Chat row and not yet its
\* messages
C21_Witness ==
  /\ call # Idle
  /\ call.pc = "insertMessages"
  /\ call.dto.chatId = NoChatId
  /\ \E id \in ChatIds : id # call.id /\ result = Returned(id, TRUE)
  /\ \E m \in messages : m.chatId # call.id

\* C22: a Chat row of the store stays in it with its createdAt, whatever
\* operation is served; a save that names a chat, updateChat, getChats,
\* getChatById and getStats leave the set of the chats as it is.
C22_ChatsStayAsCreated ==
  [][/\ \A id \in ChatIds :
          id \in DOMAIN chats' /\ chats'[id].createdAt = chats[id].createdAt
     /\ result' # result
          => /\ result' \in {Returned(id, TRUE) : id \in ChatIds}
                  => DOMAIN chats' = ChatIds
             /\ result'.op \in {"updateChat", "getChats", "getChatById",
                                "getStats"}
                  => DOMAIN chats' = ChatIds]_vars

\* C22 witness: a chat created at the first reading of the clock has been
\* archived and, at a later reading, saved again under its id
C22_Witness ==
  \E id \in ChatIds :
    /\ chats[id].createdAt = 0
    /\ now > 0
    /\ chats[id].status = "archived"
    /\ lastSave[id].chatId = id
    /\ result = Returned(id, TRUE)

\* no request is in flight
Quiet == call = Idle /\ waiting = <<>>

\* the chat's rows are the message list of the request dto, and its
\* messageCount and metric fields are those of the same request
IsSaveOf(id, dto) ==
  /\ StoredBag(messages, id) = BagOf(Submitted(dto.messages))
  /\ chats[id].messageCount = Len(dto.messages)
  /\ MetricsOf(chats[id]) = RequestedMetrics(dto)

\* C23: once the saves that name a chat have all completed, the chat's rows
\* are exactly the message list of one of the requests made for it, and its
\* messageCount and metric fields are those of that same request.
C23_LastWriteWins ==
  Quiet => \A id \in ChatIds : \E dto \in RaceDtos : IsSaveOf(id, dto)

\* the requests in flight
InFlight == {call} \cup {waiting[i] : i \in DOMAIN waiting}

\* the chat has no row while a save that names it is between its delete and
\* its insert
BetweenDeleteAndInsert(id) ==
  /\ MessagesOf(messages, id) = {}
  /\ \E c \in InFlight \ {Idle} :
       c.id = id /\ c.pc = "insertMessages" /\ c.dto.chatId = id

\* C24: getChatById returns a chat without messages only while a save of that
\* chat is between its delete and its insert; the chat had 2 or more rows
\* before that save, and has 2 or more once no save is in flight.
C24_EmptyOnlyBetweenDeleteAndInsert ==
  [][/\ (/\ result' # result
         /\ result'.op = "getChatById"
         /\ result'.error = "none"
         /\ result'.data.messages = <<>>)
          => /\ BetweenDeleteAndInsert(result'.data.id)
             /\ result'.data.id \in hadTwo
     /\ Quiet'
          => \A id \in DOMAIN chats' :
               Cardinality(MessagesOf(messages', id)) >= 2]_vars

\* C24 witness: getChatById has returned a chat without messages while a save
\* of that chat, which held 2 rows, is between its delete and its insert
C24_Witness ==
  /\ result.op = "getChatById"
  /\ result.error = "none"
  /\ result.data.messages = <<>>
  /\ result.data.metrics.messageCount = 2
  /\ BetweenDeleteAndInsert(result.data.id)
  /\ Cardinality(previous[result.data.id]) >= 2

\* lastMessage as getChats writes the row m
AsLastMessage(m) ==
  [text |-> m.text, sender |-> m.sender, time |-> ToISOString(m.createdAt)]

\* C25: in a page getChats returns, the lastMessage of a chat without rows is
\* absent, and that of any other chat is a row of that chat than which none
\* of its rows is later.
C25_LastMessageIsLatestOfChat ==
  [][(result' # result /\ result'.op = "getChats" /\ result'.error = "none")
       => \A i \in DOMAIN result'.data.chats :
            LET listed == result'.data.chats[i]
                rows == MessagesOf(messages, listed.id)
            IN IF rows = {}
               THEN listed.lastMessage.text = Undefined
               ELSE \E m \in rows :
                      /\ listed.lastMessage = AsLastMessage(m)
                      /\ \A o \in rows : o.createdAt <= m.createdAt]_vars

\* C25 witness: a page lists a chat without rows and a chat whose latest rows
\* are two of the same instant, one of them reported
C25_Witness ==
  /\ result.op = "getChats"
  /\ result.error = "none"
  /\ Len(result.data.chats) = 2
  /\ \E i, j \in DOMAIN result.data.chats :
       /\ result.data.chats[i].lastMessage.text = Undefined
       /\ result.data.chats[j].lastMessage.text = "ok"
       /\ result.data.chats[j].messageCount = 3

\* C26: whenever no save is in flight, the messageCount of every Chat is the
\* number of the ChatMessage rows stored for it, whatever saves have run
\* together before.
C26_MessageCountIsRowCount ==
  Quiet =>
    \A id \in ChatIds :
      chats[id].messageCount = Cardinality(MessagesOf(messages, id))

\* getStats has returned
Counted2 == result.op = "getStats" /\ result.error = "none"

\* C27: in every result of getStats the counts of the parts are at most the
\* counts of the wholes, also when saves commit between its queries.
C27_StatsConsistent ==
  Counted2 =>
    LET data == result.data IN
      /\ data.withContact.withBoth <= data.withContact.withPhone
      /\ data.withContact.withPhone <= data.total
      /\ data.withContact.withBoth <= data.withContact.withName
      /\ data.withContact.withName <= data.total
      /\ data.metrics.priceObjections <= data.total
      /\ data.metrics.negativeResponses <= data.total
      /\ data.metrics.uncertaintyRate <= 100 * 100

\* C28: in every result of getStats the chats counted in the last 24 hours
\* are at most those of the last 7 days, and these at most those of the last
\* 30 days, also when chats are created while the queries are served.
C28_WindowsNested ==
  Counted2 =>
    /\ result.data.recentActivity.last24h
         <= result.data.recentActivity.last7days
    /\ result.data.recentActivity.last7days
         <= result.data.recentActivity.last30days

\* C29: no writer of a Chat row writes back a stale value of a field it was
\* not asked to change.  The requests of SpecWriters set the status to
\* archived or the notes to "call back" and ask for no other status or notes:
\* a row that carries one of them carries it after every store call.
C29_NoLostUpdate ==
  [][\A id \in ChatIds :
       /\ chats[id].status = "archived" => chats'[id].status = "archived"
       /\ chats[id].notes = "call back" => chats'[id].notes = "call back"]_vars

\* no two rows of blog_posts have the same slug
UniqueSlugs ==
  \A id, other \in PostIds : posts[id].slug = posts[other].slug => id = other

\* the request served is a createPost or a slug-changing updatePost, and the
\* slug it asks for is that of another post
TargetTaken ==
  /\ call # Idle
  /\ \/ call.op = "createPost"
     \/ call.op = "updatePost" /\ ChangesSlug(call.slug, call.dto)
  /\ \E other \in PostIds \ {call.id} : posts[other].slug = call.dto.slug

\* C30: no two BlogPost rows have the same slug after any store call of
\* createPost, updatePost and deletePost calls in flight together; a store
\* call of a createPost or of a slug-changing updatePost whose slug is that of
\* another post writes nothing, and the request that ends with it fails.
C30_SlugsStayUnique ==
  [][/\ UniqueSlugs'
     /\ (TargetTaken /\ call' # call /\ waiting' = waiting)
          => /\ posts' = posts
             /\ call' = Idle => result'.error # "none"]_vars

\* C30 witness: two posts hold the two slugs, one of them renamed, and a
\* createPost that found its slug free has been rejected by the unique index
C30_Witness ==
  /\ Cardinality(PostIds) = 2
  /\ \E id \in PostIds : posts[id].title = "T2"
  /\ result = Thrown("createPost", "StoreError")

====
